---- MODULE Spec2Model ----
(***************************************************************************)
(* Model of src/main.py: DogImageDownloader.run and the two HTTP clients   *)
(* it drives (YandexDiskAPI, DogCeoAPI).                                   *)
(*                                                                         *)
(* Text (Python str) is a sequence of tokens; a token is a string that     *)
(* holds no URL or path delimiter, or is one delimiter ("/", "//", "?",    *)
(* "#", ";", "_").  An f-string is the concatenation of its parts.         *)
(* A JSON object (Python dict) is a function from its keys.                *)
(* run() is sequential; one action is one step of it: a remote call with   *)
(* the code that handles its reply, the breed selection, or the write of   *)
(* the manifest.                                                           *)
(***************************************************************************)
EXTENDS Integers, Sequences, FiniteSets, TLC

VARIABLES
    pc,                 \* position of run(): the next call it makes
    target_breed,       \* argument of run()
    results,            \* self.results
    manifest,           \* contents written to download_results.json, one per write
    folders,            \* storage service: the folders that exist
    calls,              \* history of the remote calls made, with their replies
    breeds,             \* breeds_data['message'] once fetched
    selected,           \* the (breed, sub_breeds) pairs run() iterates over
    bi,                 \* index in selected of the breed being processed
    si,                 \* index of the sub-breed being resolved
    images_to_download, \* local list of download_breed_images
    di,                 \* index in images_to_download of the next transfer
    outcome             \* how run() ended: "", "init", "catalog", "selection", "fault", "finalized"

vars == <<pc, target_breed, results, manifest, folders, calls, breeds,
          selected, bi, si, images_to_download, di, outcome>>

---------------------------------------------------------------------------
(* Bounds of the model *)

\* most create_folder calls made in a row on the storage service alone
MaxFolderCalls == 4

\* longest catalog (number of breeds in the listing)
MaxBreeds == 2
\* longest sub-breed list of a breed
MaxSubBreeds == 3

---------------------------------------------------------------------------
(* Program constants *)

HTTP_OK == 200
HTTP_CREATED == 201
HTTP_ACCEPTED == 202
HTTP_CONFLICT == 409

\* Python None, and the values Python treats as false
None == <<"<None>">>
Truthy(text) == text # None /\ text # <<>>

ROOT_FOLDER == <<"/", "PY-130(API)">>
IMAGES_FOLDER == <<"/", "PY-130(API)", "/", "dog_images">>

\* f"/PY-130(API)/dog_images/{breed}"
breed_folder_path(breed) == <<"/", "PY-130(API)", "/", "dog_images", "/">> \o breed

---------------------------------------------------------------------------
(* The remote services' possible replies (inputs of the program) *)

\* status codes other than the ones a client treats as success
FailureCodes == {401}

BreedNames == <<"akita", "husky", "pug", "corgi">>
SubNames == <<"siberian", "alaskan", "mini", "toy">>

Min(a, b) == IF a < b THEN a ELSE b

\* the breeds the catalog service knows: the first has no sub-breeds, the
\* second has MaxSubBreeds of them, the others one each
PoolSize == Min(MaxBreeds, Len(BreedNames))
BreedText(i) == <<BreedNames[i]>>
SubBreedsOf(i) ==
    IF i = 1 THEN <<>>
    ELSE IF i = 2 THEN [j \in 1..Min(MaxSubBreeds, Len(SubNames)) |-> <<SubNames[j]>>]
    ELSE << <<SubNames[1]>> >>

\* a listing is a dict breed -> sub-breeds; a Python dict iterates in
\* insertion order, so it is kept as a sequence of (key, value) pairs with
\* distinct keys
Orders ==
    UNION {{o \in [1..n -> 1..PoolSize] : \A x, y \in 1..n : x # y => o[x] # o[y]}
           : n \in 0..PoolSize}
Catalogs == {[k \in DOMAIN o |-> <<BreedText(o[k]), SubBreedsOf(o[k])>>] : o \in Orders}

\* values run() may be given as target_breed
Targets == {None, <<"dingo">>} \cup {BreedText(i) : i \in 1..PoolSize}

EmptyDict == <<>>

\* listings of at most one breed
ShortCatalogs == {c \in Catalogs : Len(c) <= 1}

\* replies to the listing query: a non-success response, a success response
\* with an empty payload or one without message, a listing with status
\* marker success, and (for the short listings) a listing whose marker is
\* not success or is missing
ListingResponses ==
    {[status_code |-> c, json |-> EmptyDict] : c \in FailureCodes \cup {HTTP_OK}}
    \cup {[status_code |-> HTTP_OK, json |-> ("status" :> <<"success">>)]}
    \cup {[status_code |-> HTTP_OK, json |-> ("status" :> <<"success">>) @@ ("message" :> c)]
          : c \in Catalogs}
    \cup {[status_code |-> HTTP_OK, json |-> ("status" :> <<"error">>) @@ ("message" :> c)]
          : c \in ShortCatalogs}
    \cup {[status_code |-> HTTP_OK, json |-> ("message" :> c)] : c \in ShortCatalogs}

\* the images the catalog service holds: two for a breed as a whole (one
\* served with a query string), one for a sub-breed
ImageUrls(breed, sub_breed) ==
    IF sub_breed = None
    THEN { <<"https:", "//", "images.dog.ceo", "/", "breeds", "/">> \o breed
               \o <<"/", "n02110063_8514.jpg">>,
           <<"https:", "//", "images.dog.ceo", "/", "breeds", "/">> \o breed
               \o <<"/", "n1.jpg", "?", "w=1">> }
    ELSE { <<"https:", "//", "images.dog.ceo", "/", "breeds", "/">> \o breed
               \o <<"-">> \o sub_breed \o <<"/", "n02110063_8514.jpg">> }

\* replies to an image query: a non-success response, a success response
\* with an image, one whose status marker is not success, one without marker
ImageResponses(breed, sub_breed) ==
    {[status_code |-> c, json |-> ("status" :> <<"error">>) @@ ("message" :> <<"not found">>)]
        : c \in {404}}
    \cup {[status_code |-> HTTP_OK, json |-> ("status" :> <<"success">>) @@ ("message" :> u)]
          : u \in ImageUrls(breed, sub_breed)}
    \cup {[status_code |-> HTTP_OK,
           json |-> ("status" :> <<"error">>) @@ ("message" :> <<"not found">>)]}
    \cup {[status_code |-> HTTP_OK, json |-> ("message" :> <<"not found">>)]}

UploadCodes == {HTTP_ACCEPTED} \cup FailureCodes

\* the storage service creates a missing folder (201), reports an existing
\* one (409), or refuses
FolderCodes(path) ==
    (IF path \in folders THEN {HTTP_CONFLICT} ELSE {HTTP_CREATED}) \cup FailureCodes

---------------------------------------------------------------------------
(* YandexDiskAPI *)

\* create_folder without the 409 branch: an existing folder counts as an error
create_folder_created_only(status_code) ==
    IF status_code = HTTP_CREATED THEN TRUE ELSE FALSE

\* create_folder with the test written `== 201 or 409`: true for any reply
create_folder_any_reply(status_code) ==
    IF status_code = HTTP_CREATED THEN TRUE ELSE TRUE

\* the value create_folder returns for a reply
create_folder(status_code) ==
    IF status_code = HTTP_CREATED THEN TRUE
    ELSE IF status_code = HTTP_CONFLICT THEN TRUE
    ELSE FALSE

\* upload_file_from_url taking every reply below 500 for an acceptance
upload_file_from_url_below_500(status_code) ==
    IF status_code < 500 THEN TRUE ELSE FALSE

\* the value upload_file_from_url returns for a reply
upload_file_from_url(status_code) ==
    IF status_code = HTTP_ACCEPTED THEN TRUE ELSE FALSE

(* DogCeoAPI *)

\* the value get_all_breeds returns for a reply
get_all_breeds(response) ==
    IF response.status_code = HTTP_OK THEN response.json ELSE EmptyDict

\* what get_breed_image does for a reply: return a value, or raise KeyError
\* from data['status'] / data['message']
get_breed_image(response) ==
    IF response.status_code = HTTP_OK
    THEN IF "status" \notin DOMAIN response.json
         THEN [raised |-> TRUE, value |-> None]
         ELSE IF response.json["status"] = <<"success">>
              THEN IF "message" \notin DOMAIN response.json
                   THEN [raised |-> TRUE, value |-> None]
                   ELSE [raised |-> FALSE, value |-> response.json["message"]]
              ELSE [raised |-> FALSE, value |-> None]
    ELSE [raised |-> FALSE, value |-> None]

---------------------------------------------------------------------------
(* DogImageDownloader *)

\* first index >= from of a token of seq that is in S, Len(seq)+1 if none
FirstIn(seq, S, from) ==
    IF \E i \in from..Len(seq) : seq[i] \in S
    THEN CHOOSE i \in from..Len(seq) :
            seq[i] \in S /\ \A j \in from..(i - 1) : seq[j] \notin S
    ELSE Len(seq) + 1

\* last index of a token of seq that is in S, 0 if none
LastIn(seq, S) ==
    IF \E i \in 1..Len(seq) : seq[i] \in S
    THEN CHOOSE i \in 1..Len(seq) :
            seq[i] \in S /\ \A j \in (i + 1)..Len(seq) : seq[j] \notin S
    ELSE 0

Schemes == {"https:", "http:"}

\* extract_filename_from_url taking the basename of the whole URL:
\* os.path.basename(url)
urlparse_path_whole_url(url) == url

\* urlparse(url).path: what follows the scheme and the //netloc, up to the
\* first "?" or "#", without the ";params" of its last segment
urlparse_path(url) ==
    LET afterScheme == IF Len(url) >= 1 /\ url[1] \in Schemes THEN 2 ELSE 1
        hasNetloc == Len(url) >= afterScheme /\ url[afterScheme] = "//"
        pathStart == IF hasNetloc
                     THEN FirstIn(url, {"/", "?", "#"}, afterScheme + 1)
                     ELSE afterScheme
        pathEnd == FirstIn(url, {"?", "#"}, pathStart)
        raw == SubSeq(url, pathStart, pathEnd - 1)
        semi == FirstIn(raw, {";"}, LastIn(raw, {"/"}) + 1)
    IN  SubSeq(raw, 1, semi - 1)

\* os.path.basename(path): what follows the last "/"
basename(path) == SubSeq(path, LastIn(path, {"/"}) + 1, Len(path))

extract_filename_from_url(url) == basename(urlparse_path(url))

\* the filename download_single_image builds
make_filename(breed, sub_breed, url) ==
    IF Truthy(sub_breed)
    THEN breed \o <<"_">> \o sub_breed \o <<"_">> \o extract_filename_from_url(url)
    ELSE breed \o <<"_">> \o extract_filename_from_url(url)

make_disk_path(folder_path, filename) == folder_path \o <<"/">> \o filename

\* the record download_single_image appends
transfer_result(img_data, folder_path, uploaded) ==
    LET filename == make_filename(img_data.breed, img_data.sub_breed, img_data.url)
    IN  [breed |-> img_data.breed,
         sub_breed |-> img_data.sub_breed,
         filename |-> filename,
         original_url |-> img_data.url,
         disk_path |-> make_disk_path(folder_path, filename),
         status |-> IF uploaded THEN "success" ELSE "error"]

\* download_single_image keeping a record only for an accepted transfer
append_result_if_success(rs, result) ==
    IF result.status = "success" THEN Append(rs, result) ELSE rs

\* download_single_image putting the record first: self.results.insert(0, result)
append_result_in_front(rs, result) == <<result>> \o rs

\* self.results.append(result)
append_result(rs, result) == Append(rs, result)

\* an entry of the call history
Call(op, breed, sub_breed, path, url, status_code, marker, ok) ==
    [op |-> op, breed |-> breed, sub_breed |-> sub_breed, path |-> path,
     url |-> url, status_code |-> status_code, marker |-> marker, ok |-> ok]

\* the status marker of a JSON payload, None if it has none
Marker(json) == IF "status" \in DOMAIN json THEN json["status"] ELSE None

\* the effect of one create_folder request on the storage service
FolderRequest(path, code) ==
    /\ folders' = IF code = HTTP_CREATED THEN folders \cup {path} ELSE folders
    /\ calls' = Append(calls, Call("create_folder", None, None, path, None, code,
                                   None, create_folder(code)))

---------------------------------------------------------------------------

Init ==
    /\ pc = "init_root"
    /\ target_breed \in Targets
    /\ results = <<>>
    /\ manifest = <<>>
    /\ folders = {ROOT_FOLDER, IMAGES_FOLDER, breed_folder_path(BreedText(1))}
    /\ calls = <<>>
    /\ breeds = <<>>
    /\ selected = <<>>
    /\ bi = 0
    /\ si = 0
    /\ images_to_download = <<>>
    /\ di = 0
    /\ outcome = ""

\* run(): create_folder("/PY-130(API)")
EnsureRoot ==
    /\ pc = "init_root"
    /\ \E code \in FolderCodes(ROOT_FOLDER) :
        /\ FolderRequest(ROOT_FOLDER, code)
        /\ IF create_folder(code)
           THEN pc' = "init_images" /\ outcome' = outcome
           ELSE pc' = "aborted" /\ outcome' = "init"
    /\ UNCHANGED <<target_breed, results, manifest, breeds, selected, bi, si,
                   images_to_download, di>>

\* run(): create_folder("/PY-130(API)/dog_images")
EnsureImages ==
    /\ pc = "init_images"
    /\ \E code \in FolderCodes(IMAGES_FOLDER) :
        /\ FolderRequest(IMAGES_FOLDER, code)
        /\ IF create_folder(code)
           THEN pc' = "catalog" /\ outcome' = outcome
           ELSE pc' = "aborted" /\ outcome' = "init"
    /\ UNCHANGED <<target_breed, results, manifest, breeds, selected, bi, si,
                   images_to_download, di>>

\* not breeds_data or 'message' not in breeds_data
listing_unusable(breeds_data) ==
    DOMAIN breeds_data = {} \/ "message" \notin DOMAIN breeds_data

\* run(): breeds_data = get_all_breeds() and the check of it
CatalogFetch ==
    /\ pc = "catalog"
    /\ \E response \in ListingResponses :
        LET breeds_data == get_all_breeds(response)
        IN  /\ calls' = Append(calls, Call("get_all_breeds", None, None, None, None,
                                           response.status_code, Marker(response.json),
                                           ~listing_unusable(breeds_data)))
            /\ IF listing_unusable(breeds_data)
               THEN pc' = "aborted" /\ outcome' = "catalog" /\ breeds' = breeds
               ELSE pc' = "select" /\ outcome' = outcome
                    /\ breeds' = breeds_data["message"]
    /\ UNCHANGED <<target_breed, results, manifest, folders, selected, bi, si,
                   images_to_download, di>>

\* target_breed in breeds
has_breed(catalog, breed) == \E k \in DOMAIN catalog : catalog[k][1] = breed

\* breeds[target_breed]
sub_breeds_of(catalog, breed) ==
    catalog[CHOOSE k \in DOMAIN catalog : catalog[k][1] = breed][2]

\* the (breed, sub_breeds) pairs run() hands to download_breed_images
select_breeds(catalog, target) ==
    IF Truthy(target)
    THEN << <<target, sub_breeds_of(catalog, target)>> >>
    ELSE catalog

\* run() without the return after "breed not found": it goes on to save
BreedSelection_without_return ==
    /\ pc = "select"
    /\ IF Truthy(target_breed) /\ ~has_breed(breeds, target_breed)
       THEN /\ pc' = "finalize"
            /\ outcome' = outcome
            /\ UNCHANGED <<selected, bi>>
       ELSE /\ selected' = select_breeds(breeds, target_breed)
            /\ outcome' = outcome
            /\ IF Len(selected') = 0
               THEN pc' = "finalize" /\ bi' = bi
               ELSE pc' = "breed_folder" /\ bi' = 1
    /\ UNCHANGED <<target_breed, results, manifest, folders, calls, breeds, si,
                   images_to_download, di>>

\* run(): the choice between the requested breed and all breeds
BreedSelection ==
    /\ pc = "select"
    /\ IF Truthy(target_breed) /\ ~has_breed(breeds, target_breed)
       THEN /\ pc' = "aborted"
            /\ outcome' = "selection"
            /\ UNCHANGED <<selected, bi>>
       ELSE /\ selected' = select_breeds(breeds, target_breed)
            /\ outcome' = outcome
            /\ IF Len(selected') = 0
               THEN pc' = "finalize" /\ bi' = bi
               ELSE pc' = "breed_folder" /\ bi' = 1
    /\ UNCHANGED <<target_breed, results, manifest, folders, calls, breeds, si,
                   images_to_download, di>>

\* run() handing the last breed to download_breed_images again
after_breed_repeating(b) == "breed_folder"

\* where run() goes once download_breed_images returns for breed number b
after_breed(b) == IF b < Len(selected) THEN "breed_folder" ELSE "finalize"

\* download_breed_images: create_folder(folder_path) and the early return
BreedFolder ==
    /\ pc = "breed_folder"
    /\ LET breed == selected[bi][1]
           folder_path == breed_folder_path(breed)
       IN  \E code \in FolderCodes(folder_path) :
            /\ folders' = IF code = HTTP_CREATED THEN folders \cup {folder_path}
                          ELSE folders
            /\ calls' = Append(calls, Call("create_folder", breed, None, folder_path,
                                           None, code, None, create_folder(code)))
            /\ IF create_folder(code)
               THEN pc' = "resolve" /\ bi' = bi /\ si' = 1
               ELSE /\ pc' = after_breed(bi)
                    /\ bi' = IF bi < Len(selected) THEN bi + 1 ELSE bi
                    /\ si' = si
    /\ images_to_download' = <<>>
    /\ UNCHANGED <<target_breed, results, manifest, breeds, selected, di, outcome>>

\* download_breed_images putting each new image first: insert(0, ...)
collect_image_in_front(images, image_url, breed, sub_breed) ==
    IF Truthy(image_url)
    THEN <<[url |-> image_url, breed |-> breed, sub_breed |-> sub_breed]>> \o images
    ELSE images

\* download_breed_images assigning the list instead of appending to it
collect_image_overwriting(images, image_url, breed, sub_breed) ==
    IF Truthy(image_url)
    THEN <<[url |-> image_url, breed |-> breed, sub_breed |-> sub_breed]>>
    ELSE images

\* images_to_download after get_breed_image returned image_url
collect_image(images, image_url, breed, sub_breed) ==
    IF Truthy(image_url)
    THEN Append(images, [url |-> image_url, breed |-> breed, sub_breed |-> sub_breed])
    ELSE images

\* download_breed_images calling download_single_image inside the
\* resolution loop, right after each image is resolved
ResolveImage_downloading_in_loop ==
    /\ pc = "resolve"
    /\ LET breed == selected[bi][1]
           sub_breeds == selected[bi][2]
           sub_breed == IF Len(sub_breeds) > 0 THEN sub_breeds[si] ELSE None
           folder_path == breed_folder_path(breed)
       IN  \E response \in ImageResponses(breed, sub_breed) : \E code \in UploadCodes :
            LET ret == get_breed_image(response)
                img_data == [url |-> ret.value, breed |-> breed, sub_breed |-> sub_breed]
                resolve == Call("get_breed_image", breed, sub_breed, None, ret.value,
                                response.status_code, Marker(response.json), ~ret.raised)
                upload == Call("upload_file_from_url", breed, sub_breed,
                               make_disk_path(folder_path,
                                              make_filename(breed, sub_breed, ret.value)),
                               ret.value, code, None, upload_file_from_url(code))
            IN  IF ret.raised
                THEN /\ pc' = "fault"
                     /\ outcome' = "fault"
                     /\ calls' = Append(calls, resolve)
                     /\ UNCHANGED <<bi, si, results>>
                ELSE /\ outcome' = outcome
                     /\ IF Truthy(ret.value)
                        THEN /\ calls' = calls \o <<resolve, upload>>
                             /\ results' = Append(results,
                                               transfer_result(img_data, folder_path,
                                                               upload_file_from_url(code)))
                        ELSE /\ calls' = Append(calls, resolve)
                             /\ results' = results
                     /\ IF si < Len(sub_breeds)
                        THEN pc' = pc /\ si' = si + 1 /\ bi' = bi
                        ELSE /\ pc' = after_breed(bi)
                             /\ bi' = IF bi < Len(selected) THEN bi + 1 ELSE bi
                             /\ si' = si
    /\ UNCHANGED <<target_breed, manifest, folders, breeds, selected,
                   images_to_download, di>>

\* download_breed_images: one get_breed_image call of either branch
ResolveImage ==
    /\ pc = "resolve"
    /\ LET breed == selected[bi][1]
           sub_breeds == selected[bi][2]
           sub_breed == IF Len(sub_breeds) > 0 THEN sub_breeds[si] ELSE None
       IN  \E response \in ImageResponses(breed, sub_breed) :
            LET ret == get_breed_image(response)
                images == collect_image(images_to_download, ret.value, breed, sub_breed)
            IN  /\ calls' = Append(calls, Call("get_breed_image", breed, sub_breed, None,
                                               ret.value, response.status_code,
                                               Marker(response.json), ~ret.raised))
                /\ IF ret.raised
                   THEN /\ pc' = "fault"
                        /\ outcome' = "fault"
                        /\ UNCHANGED <<bi, si, di, images_to_download>>
                   ELSE /\ outcome' = outcome
                        /\ images_to_download' = images
                        /\ IF si < Len(sub_breeds)
                           THEN pc' = pc /\ si' = si + 1 /\ UNCHANGED <<bi, di>>
                           ELSE IF Len(images) > 0
                           THEN pc' = "transfer" /\ di' = 1 /\ UNCHANGED <<bi, si>>
                           ELSE /\ pc' = after_breed(bi)
                                /\ bi' = IF bi < Len(selected) THEN bi + 1 ELSE bi
                                /\ UNCHANGED <<si, di>>
    /\ UNCHANGED <<target_breed, results, manifest, folders, breeds, selected>>

\* download_single_image for images_to_download[di]
TransferImage ==
    /\ pc = "transfer"
    /\ LET img_data == images_to_download[di]
           folder_path == breed_folder_path(selected[bi][1])
           filename == make_filename(img_data.breed, img_data.sub_breed, img_data.url)
           disk_path == make_disk_path(folder_path, filename)
       IN  \E code \in UploadCodes :
            /\ calls' = Append(calls, Call("upload_file_from_url", img_data.breed,
                                           img_data.sub_breed, disk_path, img_data.url,
                                           code, None, upload_file_from_url(code)))
            /\ results' = append_result(results,
                              transfer_result(img_data, folder_path,
                                              upload_file_from_url(code)))
    /\ IF di < Len(images_to_download)
       THEN pc' = pc /\ di' = di + 1 /\ bi' = bi
       ELSE /\ pc' = after_breed(bi)
            /\ bi' = IF bi < Len(selected) THEN bi + 1 ELSE bi
            /\ di' = di
    /\ UNCHANGED <<target_breed, manifest, folders, breeds, selected, si,
                   images_to_download, outcome>>

\* the content json.dump writes for self.results
dump(rs) == rs

\* run(): save_results_to_json()
SaveResults ==
    /\ pc = "finalize"
    /\ manifest' = Append(manifest, dump(results))
    /\ pc' = "done"
    /\ outcome' = "finalized"
    /\ UNCHANGED <<target_breed, results, folders, calls, breeds, selected, bi, si,
                   images_to_download, di>>

Next ==
    \/ EnsureRoot
    \/ EnsureImages
    \/ CatalogFetch
    \/ BreedSelection
    \/ BreedFolder
    \/ ResolveImage
    \/ TransferImage
    \/ SaveResults

Spec == Init /\ [][Next]_vars

---------------------------------------------------------------------------
(* Vocabulary of the properties *)

IsUpload(c) == c.op = "upload_file_from_url"
IsResolve(c) == c.op = "get_breed_image"
IsFolder(c) == c.op = "create_folder"
IsListing(c) == c.op = "get_all_breeds"

\* the transfer requests made so far, in order
Uploads == SelectSeq(calls, IsUpload)

\* the storage service accepted the transfer / created or found the folder
Accepted(c) == c.status_code = HTTP_ACCEPTED
FolderEnsured(c) == c.status_code \in {HTTP_CREATED, HTTP_CONFLICT}

\* run() has returned or was left by an exception
Terminal == pc \in {"done", "aborted", "fault"}

Range(f) == {f[x] : x \in DOMAIN f}

IsPrefix(s, t) == Len(s) <= Len(t) /\ SubSeq(t, 1, Len(s)) = s

RecordsOf(breed) == {k \in DOMAIN results : results[k].breed = breed}
RecordsOfSub(breed, sub_breed) ==
    {k \in DOMAIN results : results[k].breed = breed /\ results[k].sub_breed = sub_breed}

\* calls about one breed
BreedFolderCalls(breed) ==
    {k \in DOMAIN calls : IsFolder(calls[k]) /\ calls[k].breed = breed}
ResolveCalls(breed) ==
    {k \in DOMAIN calls : IsResolve(calls[k]) /\ calls[k].breed = breed}
UploadCalls(breed) ==
    {k \in DOMAIN calls : IsUpload(calls[k]) /\ calls[k].breed = breed}

---------------------------------------------------------------------------
(* Properties *)

\* C1: every transfer request made has exactly one record, at the same
\* position of the ResultSet, whatever the reply; at every point of the run
\* there are as many records as completed transfer requests.
C1_OneRecordPerTransfer ==
    LET requests == Uploads
    IN  /\ Len(results) = Len(requests)
        /\ \A k \in DOMAIN requests :
              /\ results[k].original_url = requests[k].url
              /\ results[k].disk_path = requests[k].path
              /\ results[k].breed = requests[k].breed
              /\ results[k].sub_breed = requests[k].sub_breed

\* an accepted and a refused transfer have both been recorded
C1_Witness ==
    /\ Len(results) >= 2
    /\ \E j, k \in DOMAIN Uploads : Accepted(Uploads[j]) /\ ~Accepted(Uploads[k])

\* C2: the ResultSet is append-only: in every step the ResultSet before the
\* step is a prefix of the ResultSet after it.
C2_AppendOnly == [][IsPrefix(results, results')]_vars

\* a record was appended to a ResultSet that already held two
C2_Witness == Len(results) >= 3

\* the breed mapping the listing handed to run() is empty: get_all_breeds
\* returned {} or a payload whose message is {}
EmptyListing ==
    \E k \in DOMAIN calls :
        /\ IsListing(calls[k])
        /\ breeds = <<>>
        /\ \/ calls[k].ok
           \/ calls[k].status_code # HTTP_OK
           \/ calls[k].marker = None

\* C3: if the catalog listing returns an empty mapping of breeds, with or
\* without a target breed, the run aborts: no record, no breed folder, no
\* transfer request, no manifest.
C3_EmptyListingAborts ==
    EmptyListing =>
        /\ results = <<>>
        /\ manifest = <<>>
        /\ pc \in {"select", "aborted"}
        /\ \A k \in DOMAIN calls : ~IsUpload(calls[k]) /\ calls[k].breed = None

\* a call for the root folder or the images subfolder was refused
InitFolderFailed(k) ==
    /\ IsFolder(calls[k])
    /\ calls[k].path \in {ROOT_FOLDER, IMAGES_FOLDER}
    /\ ~FolderEnsured(calls[k])

\* C4: if ensure_folder fails for the root folder or the images subfolder,
\* the run aborts there: that call is the last remote call, the ResultSet
\* stays empty and the manifest is not written.
C4_InitFailureAborts ==
    \A k \in DOMAIN calls :
        InitFolderFailed(k) =>
            /\ k = Len(calls)
            /\ k <= 2
            /\ pc = "aborted"
            /\ results = <<>>
            /\ manifest = <<>>

\* the root folder was ensured and the images subfolder was refused
C4_Witness ==
    /\ Len(calls) = 2
    /\ FolderEnsured(calls[1])
    /\ InitFolderFailed(2)

\* a target breed was requested and the listing fetched does not have it
UnknownTarget ==
    /\ Truthy(target_breed)
    /\ \E k \in DOMAIN calls : IsListing(calls[k]) /\ calls[k].ok
    /\ ~has_breed(breeds, target_breed)

\* C5: a requested target breed that is not a key of the listing aborts the
\* run before any folder, resolution or transfer call for that breed; no
\* record is created and the manifest is not written.
C5_UnknownTargetAborts ==
    UnknownTarget =>
        /\ pc \in {"select", "aborted"}
        /\ BreedFolderCalls(target_breed) = {}
        /\ ResolveCalls(target_breed) = {}
        /\ UploadCalls(target_breed) = {}
        /\ \A k \in DOMAIN calls : calls[k].path # breed_folder_path(target_breed)
        /\ IsListing(calls[Len(calls)])
        /\ results = <<>>
        /\ manifest = <<>>

\* the run was aborted by the selection, over a listing that has breeds
C5_Witness ==
    /\ UnknownTarget
    /\ pc = "aborted"
    /\ outcome = "selection"
    /\ Len(breeds) >= 1

\* the folder call of a breed was refused / went through
BreedFolderFailed(breed) ==
    \E k \in BreedFolderCalls(breed) : ~FolderEnsured(calls[k])
BreedFolderEnsured(breed) ==
    \E k \in BreedFolderCalls(breed) : FolderEnsured(calls[k])

\* get_breed_image returned an image location / returned absent
Resolved(c) == IsResolve(c) /\ c.ok /\ Truthy(c.url)
Absent(c) == IsResolve(c) /\ c.ok /\ ~Truthy(c.url)

\* the candidate resolved by call c was transferred and has its one record
Recorded(c) ==
    /\ \E u \in UploadCalls(c.breed) :
          calls[u].sub_breed = c.sub_breed /\ calls[u].url = c.url
    /\ Cardinality(RecordsOfSub(c.breed, c.sub_breed)) = 1
    /\ \A r \in RecordsOfSub(c.breed, c.sub_breed) : results[r].original_url = c.url

\* C6: in an all-breeds run, when the folder of breed A is refused and the
\* folder of breed B is ensured, nothing is resolved, transferred or
\* recorded for A, and every candidate resolved for B has its record once
\* the run has ended; in either order of A and B.
C6_BreedFailureIsolated ==
    (Terminal /\ ~Truthy(target_breed)) =>
        \A a, b \in DOMAIN selected :
            LET A == selected[a][1]
                B == selected[b][1]
            IN  (a # b /\ BreedFolderFailed(A) /\ BreedFolderEnsured(B)) =>
                    /\ ResolveCalls(A) = {}
                    /\ UploadCalls(A) = {}
                    /\ RecordsOf(A) = {}
                    /\ \A k \in ResolveCalls(B) : Resolved(calls[k]) => Recorded(calls[k])

\* every resolution of a breed succeeded: each sub-breed (the breed itself
\* when it has none) has a get_breed_image call that returned a location
AllResolved(breed, sub_breeds) ==
    IF Len(sub_breeds) >= 1
    THEN \A j \in DOMAIN sub_breeds :
            \E k \in ResolveCalls(breed) :
                calls[k].sub_breed = sub_breeds[j] /\ Resolved(calls[k])
    ELSE \E k \in ResolveCalls(breed) : calls[k].sub_breed = None /\ Resolved(calls[k])

\* C7: after a run that reached Finalize, a selected breed whose folder was
\* ensured and whose resolutions all succeeded has exactly one record per
\* sub-breed, n in all, when it has n >= 1 sub-breeds, and exactly one
\* record, without sub-breed, when it has none; whatever the transfers
\* returned.
C7_Completeness ==
    pc = "done" =>
        \A b \in DOMAIN selected :
            LET breed == selected[b][1]
                sub_breeds == selected[b][2]
            IN  (BreedFolderEnsured(breed) /\ AllResolved(breed, sub_breeds)) =>
                    IF Len(sub_breeds) >= 1
                    THEN /\ Cardinality(RecordsOf(breed)) = Len(sub_breeds)
                         /\ \A j \in DOMAIN sub_breeds :
                              Cardinality(RecordsOfSub(breed, sub_breeds[j])) = 1
                    ELSE /\ Cardinality(RecordsOf(breed)) = 1
                         /\ Cardinality(RecordsOfSub(breed, None)) = 1

\* a finished run recorded a breed without sub-breeds and every sub-breed of
\* a breed that has several, with a refused transfer among them
C7_Witness ==
    /\ pc = "done"
    /\ \E a, b \in DOMAIN selected :
          /\ Len(selected[a][2]) = 0
          /\ Cardinality(RecordsOf(selected[a][1])) = 1
          /\ Len(selected[b][2]) >= 2
          /\ Cardinality(RecordsOf(selected[b][1])) = Len(selected[b][2])
    /\ \E k \in DOMAIN results : results[k].status = "error"

\* C8: a record has status success exactly when the storage service accepted
\* its transfer request, and status error otherwise; its fields are the
\* values of the request; no request is dropped from the ResultSet and no
\* candidate is requested twice.
C8_StatusFidelity ==
    LET requests == Uploads
    IN  /\ Len(results) = Len(requests)
        /\ \A k \in DOMAIN requests :
              /\ results[k].status \in {"success", "error"}
              /\ results[k].status = "success" <=> Accepted(requests[k])
              /\ results[k].original_url = requests[k].url
              /\ results[k].disk_path = requests[k].path
              /\ results[k].breed = requests[k].breed
              /\ results[k].sub_breed = requests[k].sub_breed
              /\ results[k].disk_path =
                    breed_folder_path(results[k].breed) \o <<"/">> \o results[k].filename
        /\ \A j, k \in DOMAIN requests :
              (requests[j].breed = requests[k].breed
                   /\ requests[j].sub_breed = requests[k].sub_breed) => j = k

\* a refused transfer was recorded and the run went on to an accepted one
C8_Witness ==
    \E j, k \in DOMAIN Uploads :
        /\ j < k
        /\ ~Accepted(Uploads[j]) /\ results[j].status = "error"
        /\ Accepted(Uploads[k]) /\ results[k].status = "success"

\* C9: when resolve_image returns absent for sub-breed s of breed b, nothing
\* is transferred or recorded for (b, s), and once the run has ended every
\* other sub-breed of b has been resolved and, if it resolved, transferred
\* and recorded.
C9_ResolutionFailureIsolated ==
    Terminal =>
        \A k \in DOMAIN calls :
            Absent(calls[k]) =>
                LET b == calls[k].breed
                    s == calls[k].sub_breed
                    others == {t \in Range(sub_breeds_of(breeds, b)) : t # s}
                IN  /\ \A u \in UploadCalls(b) : calls[u].sub_breed # s
                    /\ RecordsOfSub(b, s) = {}
                    /\ \A t \in others :
                          \E j \in ResolveCalls(b) :
                              /\ calls[j].sub_breed = t
                              /\ Resolved(calls[j]) => Recorded(calls[j])

\* both root folders were ensured, the listing passed run()'s check, and the
\* target breed, if any, is in it
RootsEnsured ==
    /\ Len(calls) >= 2
    /\ FolderEnsured(calls[1])
    /\ FolderEnsured(calls[2])
ListingUsable == \E k \in DOMAIN calls : IsListing(calls[k]) /\ calls[k].ok
TargetKnown == Truthy(target_breed) => has_breed(breeds, target_breed)

\* C10: the manifest is written at most once, as the last action, holding
\* the full ResultSet in append order; once the run has ended it has been
\* written if and only if both root folders were ensured, the listing was
\* usable and the target breed (if any) is in the catalog, whatever failed
\* for a breed folder, a resolution or a transfer.
C10_ManifestWrittenIff ==
    /\ Len(manifest) <= 1
    /\ Len(manifest) = 1 => (pc = "done" /\ manifest[1] = results)
    /\ Terminal => (Len(manifest) = 1 <=> (RootsEnsured /\ ListingUsable /\ TargetKnown))

---------------------------------------------------------------------------
(* YandexDiskAPI.create_folder called repeatedly on a storage service that *)
(* starts without folders                                                  *)

FolderPaths == {ROOT_FOLDER, IMAGES_FOLDER}

InitFolders ==
    /\ pc = "storage"
    /\ target_breed = None
    /\ results = <<>>
    /\ manifest = <<>>
    /\ folders = {}
    /\ calls = <<>>
    /\ breeds = <<>>
    /\ selected = <<>>
    /\ bi = 0
    /\ si = 0
    /\ images_to_download = <<>>
    /\ di = 0
    /\ outcome = ""

\* one create_folder(path) call
EnsureFolder ==
    /\ pc = "storage"
    /\ Len(calls) < MaxFolderCalls
    /\ \E path \in FolderPaths : \E code \in FolderCodes(path) : FolderRequest(path, code)
    /\ UNCHANGED <<pc, target_breed, results, manifest, breeds, selected, bi, si,
                   images_to_download, di, outcome>>

SpecFolders == InitFolders /\ [][EnsureFolder]_vars

\* the call a step has added to the history
NewCall == calls'[Len(calls')]

\* C11: create_folder returns true for the replies created (201) and already
\* exists (409) and false for any other reply; a call on a path that an
\* earlier call created is not answered created again, and when it is
\* answered already exists it returns true and leaves the set of remote
\* folders unchanged.
C11_EnsureFolderIdempotent ==
    [][(Len(calls') = Len(calls) + 1 /\ IsFolder(NewCall)) =>
          /\ NewCall.ok <=> NewCall.status_code \in {HTTP_CREATED, HTTP_CONFLICT}
          /\ NewCall.status_code = HTTP_CREATED =>
                (NewCall.path \notin folders /\ folders' = folders \cup {NewCall.path})
          /\ (\E j \in DOMAIN calls :
                 calls[j].path = NewCall.path /\ calls[j].status_code = HTTP_CREATED) =>
                /\ NewCall.status_code # HTTP_CREATED
                /\ NewCall.status_code = HTTP_CONFLICT => (NewCall.ok /\ folders' = folders)
      ]_vars

\* a path was created by one call and found existing by the next call on it;
\* both returned true, and a refused call returned false
C11_Witness ==
    /\ \E j, k \in DOMAIN calls :
          /\ j < k
          /\ calls[j].path = calls[k].path
          /\ calls[j].status_code = HTTP_CREATED /\ calls[j].ok
          /\ calls[k].status_code = HTTP_CONFLICT /\ calls[k].ok
    /\ \E k \in DOMAIN calls : ~FolderEnsured(calls[k]) /\ ~calls[k].ok

---------------------------------------------------------------------------
(* download_single_image applied to one candidate, for the image locations *)
(* a catalog reply may hold                                                *)

\* path parts and tails of image locations: no path, a path that ends with
\* "/", parameters after ";", a query, a fragment, "/" inside them
UrlPaths ==
    { <<>>,
      <<"/">>,
      <<"/", "breeds", "/">>,
      <<"/", "breeds", "/", "n02110063_8514.jpg">>,
      <<"/", "breeds", "/", "n1.jpg", ";", "v=1">>,
      <<"/", "breeds", ";", "x", "/", "n1.jpg">> }
UrlTails ==
    { <<>>,
      <<"?", "w=1">>,
      <<"#", "top">>,
      <<"?", "w=1", "#", "top">>,
      <<"?", "a", "/", "b">>,
      <<"#", "top", "?", "a", "/", "b">> }
CandidateUrls == {<<"https:", "//", "images.dog.ceo">> \o p \o t : p \in UrlPaths, t \in UrlTails}

\* a breed without sub-breeds and a sub-breed of a breed
CandidateBreeds ==
    { <<BreedText(1), <<>>, None>>,
      <<BreedText(2), SubBreedsOf(2), SubBreedsOf(2)[1]>> }

InitFilename ==
    /\ pc = "transfer"
    /\ target_breed = None
    /\ results = <<>>
    /\ manifest = <<>>
    /\ folders = {ROOT_FOLDER, IMAGES_FOLDER}
    /\ calls = <<>>
    /\ \E c \in CandidateBreeds, u \in CandidateUrls :
          /\ breeds = << <<c[1], c[2]>> >>
          /\ selected = << <<c[1], c[2]>> >>
          /\ images_to_download = <<[url |-> u, breed |-> c[1], sub_breed |-> c[3]]>>
    /\ bi = 1
    /\ si = 1
    /\ di = 1
    /\ outcome = ""

SpecFilename == InitFilename /\ [][TransferImage \/ SaveResults]_vars

\* the last path segment of a URL, query string and fragment excluded: the
\* URL is cut at its first "?" or "#", its path starts at the first "/", and
\* the segment is what follows the last "/" of the path
LastPathSegment(url) ==
    LET cut == SubSeq(url, 1, FirstIn(url, {"?", "#"}, 1) - 1)
        start == FirstIn(cut, {"/"}, 1)
        path == SubSeq(cut, start, Len(cut))
    IN  SubSeq(path, LastIn(path, {"/"}) + 1, Len(path))

\* the same segment without its parameters (what follows its first ";")
LastPathSegmentNoParams(url) ==
    LET seg == LastPathSegment(url)
    IN  SubSeq(seg, 1, FirstIn(seg, {";"}, 1) - 1)

\* record r is named and placed by the rule, for the given basename
NamedBy(r, base) ==
    /\ r.filename = IF r.sub_breed # None
                    THEN r.breed \o <<"_">> \o r.sub_breed \o <<"_">> \o base
                    ELSE r.breed \o <<"_">> \o base
    /\ r.disk_path = ROOT_FOLDER \o <<"/", "dog_images", "/">> \o r.breed
                        \o <<"/">> \o r.filename

\* C12 (as stated): every record's filename is breed_subbreed_basename with
\* a sub-breed and breed_basename without, basename being the last path
\* segment of the URL with query string and fragment excluded, and its
\* disk_path is root/images_subfolder/breed/filename.
C12_FilenameRule ==
    \A k \in DOMAIN results : NamedBy(results[k], LastPathSegment(results[k].original_url))

\* C12 (amended): the same, basename being the last path segment with its
\* ";" parameters, the query string and the fragment excluded.
C12_FilenameRuleNoParams ==
    \A k \in DOMAIN results :
        NamedBy(results[k], LastPathSegmentNoParams(results[k].original_url))

\* a record of a sub-breed whose URL had parameters and a query, named
\* without them
C12_Witness ==
    \E k \in DOMAIN results :
        /\ results[k].sub_breed # None
        /\ \E i, j \in DOMAIN results[k].original_url :
              results[k].original_url[i] = ";" /\ results[k].original_url[j] = "?"
        /\ results[k].filename = results[k].breed \o <<"_">> \o results[k].sub_breed
                                    \o <<"_", "n1.jpg">>

---------------------------------------------------------------------------
(* Properties of run(), continued *)

\* the reply to an image query was a non-success response, or a success
\* response whose status marker is not success or is missing
NoImageReply(c) ==
    /\ IsResolve(c)
    /\ \/ c.status_code # HTTP_OK
       \/ c.marker # <<"success">>

\* C13: for a non-success response, a status marker that is not success and
\* a missing status marker, resolve_image returns absent without raising,
\* and the run goes on and ends at Finalize.
C13_ResolveReturnsAbsent ==
    \A k \in DOMAIN calls :
        NoImageReply(calls[k]) =>
            /\ calls[k].ok
            /\ calls[k].url = None
            /\ pc # "fault"
            /\ Terminal => pc = "done"

\* calls made for a breed (its folder, its images, its transfers)
BreedCalls == {k \in DOMAIN calls : calls[k].breed # None}

\* C14: for every breed, its folder call precedes each of its resolve_image
\* calls, and each of its resolve_image calls precedes each of its transfer
\* requests; the two root-folder calls and the catalog listing precede every
\* call made for a breed.
C14_PerBreedOrdering ==
    /\ \A k \in BreedCalls : \A j \in k..Len(calls) :
          calls[j].breed = calls[k].breed =>
              /\ ~(IsFolder(calls[j]) /\ ~IsFolder(calls[k]))
              /\ ~(IsResolve(calls[j]) /\ IsUpload(calls[k]))
    /\ \A k \in BreedCalls :
          /\ ~IsFolder(calls[k]) => BreedFolderCalls(calls[k].breed) # {}
          /\ k > 3
          /\ IsFolder(calls[1]) /\ calls[1].path = ROOT_FOLDER
          /\ IsFolder(calls[2]) /\ calls[2].path = IMAGES_FOLDER
          /\ IsListing(calls[3])

\* two breeds were processed, one of them with two images resolved and then
\* two transfers requested
C14_Witness ==
    /\ \E j, k \in BreedCalls :
          IsUpload(calls[j]) /\ IsFolder(calls[k]) /\ calls[j].breed # calls[k].breed
    /\ \E b \in Range(selected) :
          Cardinality(ResolveCalls(b[1])) >= 2 /\ Cardinality(UploadCalls(b[1])) >= 2

\* C15: with a target breed that is in the catalog, every call made for a
\* breed and every record concerns that breed only; without a target, once
\* the run has ended after a usable listing, ensure_folder has been called
\* for the folder of every breed of the catalog.
C15_BreedSelection ==
    /\ (Truthy(target_breed) /\ ListingUsable /\ has_breed(breeds, target_breed)) =>
          /\ \A k \in BreedCalls : calls[k].breed = target_breed
          /\ \A k \in DOMAIN calls :
                (IsFolder(calls[k]) /\ k > 2) =>
                    calls[k].path = breed_folder_path(target_breed)
          /\ \A k \in DOMAIN results : results[k].breed = target_breed
    /\ (~Truthy(target_breed) /\ ListingUsable /\ Terminal) =>
          \A i \in DOMAIN breeds :
              \E k \in BreedFolderCalls(breeds[i][1]) :
                  calls[k].path = breed_folder_path(breeds[i][1])

\* C16: no call is repeated: create_folder is called at most once per path,
\* resolve_image at most once per (breed, sub-breed), and a transfer is
\* requested at most once per candidate, whatever the earlier call returned.
C16_NoRetries ==
    \A k \in DOMAIN calls : \A j \in 1..(k - 1) :
        calls[j].op = calls[k].op =>
            IF IsFolder(calls[k])
            THEN calls[j].path # calls[k].path
            ELSE (IsResolve(calls[k]) \/ IsUpload(calls[k])) =>
                    ~(/\ calls[j].breed = calls[k].breed
                      /\ calls[j].sub_breed = calls[k].sub_breed)

\* a run ended after a refused breed folder, an absent image and a refused
\* transfer, none of them followed by a second attempt
C16_Witness ==
    /\ pc = "done"
    /\ \E k \in BreedCalls : IsFolder(calls[k]) /\ ~FolderEnsured(calls[k])
    /\ \E k \in BreedCalls : Absent(calls[k])
    /\ \E k \in BreedCalls : IsUpload(calls[k]) /\ ~Accepted(calls[k])

\* C17: a listing payload is processed only when its status marker is
\* success; after a listing reply whose marker is missing or not success the
\* run is aborted: no breed is processed and no manifest is written.
C17_ListingMarkerRequired ==
    \A k \in DOMAIN calls :
        (IsListing(calls[k]) /\ calls[k].marker # <<"success">>) =>
            /\ BreedCalls = {}
            /\ manifest = <<>>
            /\ pc \notin {"breed_folder", "resolve", "transfer", "done"}

\* the phases of run(), in order: Init, CatalogFetch, BreedSelection, the
\* per-breed processing (folder, resolutions, transfers, repeated for each
\* selected breed), Finalize, and the end of the run
PhaseRank(p) ==
    CASE p \in {"init_root", "init_images"} -> 1
      [] p = "catalog" -> 2
      [] p = "select" -> 3
      [] p \in {"breed_folder", "resolve", "transfer"} -> 4
      [] p = "finalize" -> 5
      [] OTHER -> 6

\* run() goes on as long as it has a step to take
FairSpec == Spec /\ WF_vars(Next)

\* C18: every run eventually ends, either aborted at Init, CatalogFetch or
\* BreedSelection or at Finalize with the manifest written, and never goes
\* back to an earlier phase (nor to an earlier breed).
C18_Terminates ==
    /\ <>(\/ pc = "aborted" /\ outcome \in {"init", "catalog", "selection"}
          \/ pc = "done" /\ Len(manifest) = 1)
    /\ [][PhaseRank(pc') >= PhaseRank(pc) /\ bi' >= bi]_vars

\* position of a breed in the listing, of a sub-breed in its breed's list
BreedIndex(breed) == CHOOSE i \in DOMAIN breeds : breeds[i][1] = breed
SubIndex(breed, sub_breed) ==
    CHOOSE i \in DOMAIN sub_breeds_of(breeds, breed) :
        sub_breeds_of(breeds, breed)[i] = sub_breed

\* C19: the ResultSet is in processing order: records follow the catalog's
\* order of breeds (so the records of one breed are contiguous), and within
\* a breed the order of its sub-breed list.
C19_RecordOrder ==
    \A j, k \in DOMAIN results :
        j < k =>
            /\ has_breed(breeds, results[j].breed)
            /\ has_breed(breeds, results[k].breed)
            /\ BreedIndex(results[j].breed) <= BreedIndex(results[k].breed)
            /\ results[j].breed = results[k].breed =>
                  /\ results[j].sub_breed \in Range(sub_breeds_of(breeds, results[j].breed))
                  /\ results[k].sub_breed \in Range(sub_breeds_of(breeds, results[k].breed))
                  /\ SubIndex(results[j].breed, results[j].sub_breed)
                        < SubIndex(results[k].breed, results[k].sub_breed)

\* records of two breeds, the later breed with its first and third sub-breed
\* recorded and the second skipped, or the breed with sub-breeds first
C19_Witness ==
    /\ \E j, k \in DOMAIN results : results[j].breed # results[k].breed
    /\ \E j, k \in DOMAIN results :
          /\ j < k
          /\ results[j].breed = results[k].breed
          /\ SubIndex(results[k].breed, results[k].sub_breed)
                = SubIndex(results[j].breed, results[j].sub_breed) + 2

====
